---- MODULE Spec2Model ----
(***************************************************************************)
(* Weather logger: fetch orchestration with de-duplication, the JSON      *)
(* observation store, the scheduler loop and the analytics queries of     *)
(* weather_logger.py / weather_scheduler.py.                               *)
(*                                                                         *)
(* Time is counted in whole hours (timedelta(hours=2) is 2).  Temperatures *)
(* are fixed-point numbers in hundredths of a degree Celsius.  An          *)
(* observation keeps the fields the logic reads: city, temperature and    *)
(* local_timestamp (description, humidity and utc_timestamp are stored    *)
(* and printed but never compared).  local_timestamp is written with      *)
(* isoformat() and read back with fromisoformat(), which yields the same  *)
(* datetime, so the stored value is the time itself.  The scheduler's     *)
(* interval is one clock unit.                                            *)
(***************************************************************************)
EXTENDS Integers, Sequences, FiniteSets, TLC

VARIABLES
    clock,          \* datetime.now(), in hours
    file,           \* weather_data.json: [state, log]
    phase,          \* fetch_and_log_weather: idle, fetching, or how the last run ended
    req,            \* the cities argument of the run
    force,          \* the force_update argument of the run
    loaded,         \* what load_data() returned at line 106
    data,           \* the local list `data` of the run
    tasks,          \* the cities whose fetch coroutine was appended to `tasks`
    results,        \* per task: "pending", None or the observation dict
    calls,          \* session.get calls issued by the run
    saves,          \* save_data calls made by the run
    dupRequested,   \* history: an unforced run was asked for two case-insensitively equal cities
    is_running,     \* WeatherScheduler.is_running
    sched_pc,       \* position of start_scheduler
    next_run,       \* the schedule job's next due time
    sched_cities,   \* WeatherScheduler.cities
    stopGiven,      \* history: stop_scheduler was called since the loop started
    alog,           \* analytics input: the list load_data() returns
    anow,           \* analytics input: datetime.now()
    acity,          \* analytics input: the city argument
    out             \* analytics output

vars == <<clock, file, phase, req, force, loaded, data, tasks, results, calls,
          saves, dupRequested, is_running, sched_pc, next_run, sched_cities,
          stopGiven, alog, anow, acity, out>>

runVars == <<file, phase, req, force, loaded, data, tasks, results, calls, saves>>
schedVars == <<is_running, sched_pc, next_run, sched_cities, stopGiven>>
queryVars == <<alog, anow, acity, out>>

\* ------------------------------------------------------------------ bounds
MaxLog == 2         \* longest stored log: no further fetch succeeds once it is reached
MaxReq == 2         \* longest request list
MaxClock == 2       \* last hour of the run specifications
MaxLen == 3         \* longest log drawn for the analytics specifications

\* --------------------------------------------------------------- constants
Window == 2         \* timedelta(hours=2)
Day == 24           \* timedelta(hours=24)
IntervalTicks == 1  \* interval_minutes, in clock units

\* ------------------------------------------------------------------ strings
Cities == {"Paris", "paris", "Rome"}

\* str.lower() on the city names in use
lower(s) ==
    CASE s = "Paris" -> "paris"
      [] s = "Rome" -> "rome"
      [] s = "No data" -> "no data"
      [] OTHER -> s

\* what a gathered task holds: not yet returned, None, or the observation dict
None == [kind |-> "None"]
Pending == [kind |-> "pending"]
Dict(o) == [kind |-> "dict", value |-> o]

\* what a query printed: nothing yet, or the "No weather data available." line
NoOutput == [kind |-> "none"]
NoWeatherData == [kind |-> "No weather data available."]

Obs(city, temp, t) == [city |-> city, temperature |-> temp, local_timestamp |-> t]

SeqsUpTo(S, n) == UNION {[1..k -> S] : k \in 0..n}

\* -------------------------------------------------------------------- store
AbsentFile == [state |-> "absent", log |-> <<>>]
CorruptFile == [state |-> "corrupt", log |-> <<>>]
ValidFile(d) == [state |-> "valid", log |-> d]

\* load_data: the parsed list, or [] when the file is missing or not valid JSON
load_data(f) == IF f.state = "valid" THEN f.log ELSE <<>>

SaveOutcomes == {"ok", "open_failed", "write_failed"}

\* save_data: open(data_file, 'w') truncates the file, json.dump then writes the
\* list piece by piece.  A failure of open leaves the file as it was; a failure
\* after the truncation leaves an empty or half-written file, which is not JSON.
save_data(f, d, outcome) ==
    CASE outcome = "ok" -> ValidFile(d)
      [] outcome = "open_failed" -> f
      [] OTHER -> CorruptFile

\* ------------------------------------------------------------ dedup filter
RECURSIVE ScanReversed(_, _, _, _)
ScanReversed(city, d, i, two_hours_ago) ==
    IF i = 0 THEN FALSE
    ELSE IF lower(d[i].city) = lower(city) /\ d[i].local_timestamp > two_hours_ago
         THEN TRUE
         ELSE ScanReversed(city, d, i - 1, two_hours_ago)

is_duplicate_entry_ge(city, d, now) ==
    IF d = <<>> THEN FALSE
    ELSE \E i \in DOMAIN d :
            lower(d[i].city) = lower(city) /\ d[i].local_timestamp >= now - Window

is_duplicate_entry_exact(city, d, now) ==
    IF d = <<>> THEN FALSE
    ELSE \E i \in DOMAIN d :
            d[i].city = city /\ d[i].local_timestamp > now - Window

is_duplicate_entry(city, d, now) ==
    IF d = <<>> THEN FALSE
    ELSE ScanReversed(city, d, Len(d), now - Window)

\* ------------------------------------------------------------ orchestrator
FetchTemps == {1000}
FetchOutcomes == {"ok", "http_error", "malformed", "transport"}

\* fetch_weather_data: the observation stamped at the moment the response is
\* accepted, or None for a non-200 status and for any exception
fetch_weather_data(city, outcome, temp, now) ==
    IF outcome = "ok" THEN Dict(Obs(city, temp, now)) ELSE None

needs_task_unforced(city, d, force_update, now) ==
    ~is_duplicate_entry(city, d, now)

\* line 111: force_update or not self.is_duplicate_entry(city, data)
needs_task(city, d, force_update, now) ==
    force_update \/ ~is_duplicate_entry(city, d, now)

\* lines 109-114: one coroutine per city that passes the test, in request order
RECURSIVE build_tasks(_, _, _, _)
build_tasks(cities, d, force_update, now) ==
    IF cities = <<>> THEN <<>>
    ELSE LET rest == build_tasks(Tail(cities), d, force_update, now)
         IN IF needs_task(Head(cities), d, force_update, now)
            THEN <<Head(cities)>> \o rest
            ELSE rest

RECURSIVE append_results_until_none(_, _)
append_results_until_none(d, rs) ==
    IF rs = <<>> \/ Head(rs).kind # "dict" THEN d
    ELSE append_results_until_none(Append(d, Head(rs).value), Tail(rs))

\* lines 119-125: every dict among the gathered results is appended, in task order
RECURSIVE append_results(_, _)
append_results(d, rs) ==
    IF rs = <<>> THEN d
    ELSE append_results(IF Head(rs).kind = "dict" THEN Append(d, Head(rs).value) ELSE d,
                        Tail(rs))

gather_first_completed(rs) == \E i \in DOMAIN rs : rs[i] # Pending

\* line 117: asyncio.gather returns when every task has returned
gather_done(rs) == \A i \in DOMAIN rs : rs[i] # Pending

HasCaseDup(cities) ==
    \E i, j \in DOMAIN cities : i < j /\ lower(cities[i]) = lower(cities[j])

\* the locals of fetch_and_log_weather are gone once it has returned
ClearLocals ==
    /\ req' = <<>>
    /\ force' = FALSE
    /\ loaded' = <<>>
    /\ data' = <<>>
    /\ tasks' = <<>>
    /\ results' = <<>>
    /\ calls' = 0

\* lines 104-117: load, build the tasks, launch them together
StartRunBody(cities, force_update) ==
    /\ phase # "fetching"
    /\ LET d == load_data(file)
           ts == build_tasks(cities, d, force_update, clock)
       IN /\ loaded' = d
          /\ data' = d
          /\ tasks' = ts
          /\ results' = [i \in 1..Len(ts) |-> Pending]
          /\ calls' = Len(ts)
    /\ phase' = "fetching"
    /\ req' = cities
    /\ force' = force_update
    /\ saves' = 0
    /\ UNCHANGED file

RequestLists == SeqsUpTo(Cities, MaxReq) \ {<<>>}

StartRun ==
    /\ \E cities \in RequestLists, f \in BOOLEAN : StartRunBody(cities, f)
    /\ UNCHANGED <<clock, dupRequested, schedVars, queryVars>>

StartRunUnforced ==
    /\ \E cities \in RequestLists :
          /\ StartRunBody(cities, FALSE)
          /\ dupRequested' = (dupRequested \/ HasCaseDup(cities))
    /\ UNCHANGED <<clock, schedVars, queryVars>>

\* one fetch coroutine returns (lines 63-79)
FetchComplete ==
    /\ phase = "fetching"
    /\ \E i \in DOMAIN results, o \in FetchOutcomes, temp \in FetchTemps :
          /\ results[i] = Pending
          /\ o = "ok" => Len(append_results(data, results)) < MaxLog
          /\ results' = [results EXCEPT ![i] = fetch_weather_data(tasks[i], o, temp, clock)]
    /\ UNCHANGED <<clock, file, phase, req, force, loaded, data, tasks, calls,
                   saves, dupRequested, schedVars, queryVars>>

\* lines 117-128: the join, the append loop and the single save_data call
\* (view_all_logs at line 123 only reads and prints); an exception of save_data
\* leaves the coroutine
Join ==
    /\ phase = "fetching"
    /\ tasks # <<>>
    /\ gather_done(results)
    /\ \E o \in SaveOutcomes :
          /\ file' = save_data(file, append_results(data, results), o)
          /\ phase' = IF o = "ok" THEN "done" ELSE "failed"
    /\ saves' = saves + 1
    /\ ClearLocals
    /\ UNCHANGED <<clock, dupRequested, schedVars, queryVars>>

\* lines 129-130: nothing to fetch, nothing is written
NoTasks ==
    /\ phase = "fetching"
    /\ tasks = <<>>
    /\ phase' = "done"
    /\ ClearLocals
    /\ UNCHANGED <<clock, file, saves, dupRequested, schedVars, queryVars>>

Tick ==
    /\ clock < MaxClock
    /\ clock' = clock + 1
    /\ UNCHANGED <<runVars, dupRequested, schedVars, queryVars>>

InitRun ==
    /\ clock = 0
    /\ file = AbsentFile
    /\ phase = "idle"
    /\ req = <<>>
    /\ force = FALSE
    /\ loaded = <<>>
    /\ data = <<>>
    /\ tasks = <<>>
    /\ results = <<>>
    /\ calls = 0
    /\ saves = 0
    /\ dupRequested = FALSE

InitSchedOff ==
    /\ is_running = FALSE
    /\ sched_pc = "off"
    /\ next_run = 0
    /\ sched_cities = <<>>
    /\ stopGiven = FALSE

InitQueryOff ==
    /\ alog = <<>>
    /\ anow = 0
    /\ acity = ""
    /\ out = NoOutput

Init == InitRun /\ InitSchedOff /\ InitQueryOff

Next == StartRun \/ FetchComplete \/ Join \/ NoTasks \/ Tick

Spec == Init /\ [][Next]_vars

NextUnforced == StartRunUnforced \/ FetchComplete \/ Join \/ NoTasks \/ Tick

SpecUnforced == Init /\ [][NextUnforced]_vars

\* ---------------------------------------------------------- scheduler
LoopStates == {"test", "pending", "running", "sleep"}

\* lines 32-36: register the job, then is_running = True
start_scheduler ==
    /\ sched_pc = "init"
    /\ next_run' = clock + IntervalTicks
    /\ is_running' = TRUE
    /\ stopGiven' = FALSE
    /\ sched_pc' = "test"
    /\ UNCHANGED <<clock, runVars, dupRequested, sched_cities, queryVars>>

\* line 39: while self.is_running
LoopTest ==
    /\ sched_pc = "test"
    /\ sched_pc' = IF is_running THEN "pending" ELSE "exit"
    /\ UNCHANGED <<clock, runVars, dupRequested, is_running, next_run, sched_cities, stopGiven, queryVars>>

\* line 40: schedule.run_pending() runs the job when it is due, which calls
\* scheduled_fetch (lines 21-23): fetch_and_log_weather(self.cities, force_update=True)
RunPending ==
    /\ sched_pc = "pending"
    /\ IF clock >= next_run
       THEN /\ StartRunBody(sched_cities, TRUE)
            /\ sched_pc' = "running"
       ELSE /\ sched_pc' = "sleep"
            /\ UNCHANGED runVars
    /\ UNCHANGED <<clock, dupRequested, is_running, next_run, sched_cities, stopGiven, queryVars>>

\* asyncio.run returns and the job is scheduled again; an exception of the run
\* is not caught by the loop (only KeyboardInterrupt is)
RunReturns ==
    /\ sched_pc = "running"
    /\ phase \in {"done", "failed"}
    /\ IF phase = "done"
       THEN /\ sched_pc' = "sleep"
            /\ next_run' = clock + IntervalTicks
       ELSE /\ sched_pc' = "crashed"
            /\ UNCHANGED next_run
    /\ UNCHANGED <<clock, runVars, dupRequested, is_running, sched_cities, stopGiven, queryVars>>

\* line 41: time.sleep(1)
Sleep ==
    /\ sched_pc = "sleep"
    /\ sched_pc' = "test"
    /\ UNCHANGED <<clock, runVars, dupRequested, is_running, next_run, sched_cities, stopGiven, queryVars>>

\* lines 46-49, called from outside the loop at any moment
stop_scheduler ==
    /\ sched_pc \in LoopStates
    /\ is_running
    /\ is_running' = FALSE
    /\ stopGiven' = TRUE
    /\ UNCHANGED <<clock, runVars, dupRequested, sched_pc, next_run, sched_cities, queryVars>>

\* lines 42-44: Ctrl+C leaves the loop, and cancels a run that is in flight
KeyboardInterrupt ==
    /\ sched_pc \in LoopStates
    /\ is_running' = FALSE
    /\ sched_pc' = "exit"
    /\ IF phase = "fetching"
       THEN /\ phase' = "cancelled"
            /\ ClearLocals
            /\ UNCHANGED <<file, saves>>
       ELSE UNCHANGED runVars
    /\ UNCHANGED <<clock, dupRequested, next_run, sched_cities, stopGiven, queryVars>>

InitSched ==
    /\ InitRun
    /\ InitQueryOff
    /\ is_running = FALSE
    /\ sched_pc = "init"
    /\ next_run = 0
    /\ sched_cities \in SeqsUpTo(Cities, MaxReq)
    /\ stopGiven = FALSE

NextSched ==
    \/ start_scheduler
    \/ LoopTest
    \/ RunPending
    \/ RunReturns
    \/ Sleep
    \/ stop_scheduler
    \/ KeyboardInterrupt
    \/ FetchComplete
    \/ Join
    \/ NoTasks
    \/ Tick

SpecSched == InitSched /\ [][NextSched]_vars

\* C6: once stop_scheduler has been called no further scheduled run starts, and
\* the call leaves a run in flight untouched.
C6_StopPreventsNextRun ==
    [][ /\ (stopGiven /\ sched_pc # "running") => sched_pc' # "running"
        /\ (~stopGiven /\ stopGiven') => UNCHANGED runVars ]_vars

\* ---------------------------------------------------------- analytics
\* the dedup filter applied to a drawn log
DedupTimes == {1, 2, 3}
DedupNows == {3, 4}
DedupEntries == {Obs(c, 1000, t) : c \in Cities, t \in DedupTimes}

InitDedup ==
    /\ InitRun
    /\ InitSchedOff
    /\ alog \in SeqsUpTo(DedupEntries, MaxLen)
    /\ acity \in Cities
    /\ anow \in DedupNows
    /\ out = NoOutput

CheckDuplicate ==
    /\ out = NoOutput
    /\ out' = [kind |-> "is_duplicate_entry", value |-> is_duplicate_entry(acity, alog, anow)]
    /\ UNCHANGED <<clock, runVars, dupRequested, schedVars, alog, anow, acity>>

SpecDedup == InitDedup /\ [][CheckDuplicate]_vars

\* get_city_averages ------------------------------------------------------
\* f"{avg_temp:.1f}": the mean sum/n (in hundredths) printed with one decimal,
\* as a number of tenths; a mean half-way between two tenths goes to the even one
FormatTenths(sum, n) ==
    LET den == 10 * n
        fl == sum \div den
        rem == sum - fl * den
    IN IF 2 * rem < den THEN fl
       ELSE IF 2 * rem > den THEN fl + 1
       ELSE IF fl % 2 = 0 THEN fl ELSE fl + 1

RECURSIVE SumSeq(_)
SumSeq(ts) == IF ts = <<>> THEN 0 ELSE Head(ts) + SumSeq(Tail(ts))

\* lines 196-201: the dict city -> list of temperatures, as the list of its
\* items in insertion order
RECURSIVE group_by_city(_, _)
group_by_city(log, city_data) ==
    IF log = <<>> THEN city_data
    ELSE LET e == Head(log)
             known == {i \in DOMAIN city_data : city_data[i].city = e.city}
         IN group_by_city(Tail(log),
                IF known = {}
                THEN Append(city_data, [city |-> e.city, temps |-> <<e.temperature>>])
                ELSE [i \in DOMAIN city_data |->
                        IF i \in known
                        THEN [city_data[i] EXCEPT !.temps = Append(@, e.temperature)]
                        ELSE city_data[i]])

\* lines 203-207: one row [city, "x.y°C", count] per city
average_rows(city_data) ==
    [i \in DOMAIN city_data |->
        [city |-> city_data[i].city,
         avg |-> FormatTenths(SumSeq(city_data[i].temps), Len(city_data[i].temps)),
         count |-> Len(city_data[i].temps)]]

\* list.sort on the number printed in the row is stable: a row goes behind the
\* rows already placed whose key is not larger
RECURSIVE insert_row(_, _)
insert_row(sorted, row) ==
    IF sorted = <<>> THEN <<row>>
    ELSE IF sorted[Len(sorted)].avg <= row.avg THEN Append(sorted, row)
    ELSE Append(insert_row(SubSeq(sorted, 1, Len(sorted) - 1), row), sorted[Len(sorted)])

RECURSIVE sort_from(_, _)
sort_from(rows, sorted) ==
    IF rows = <<>> THEN sorted
    ELSE sort_from(Tail(rows), insert_row(sorted, Head(rows)))

sort_rows_unsorted(rows) == rows

\* line 209: averages.sort(key=lambda x: float(x[1].replace('°C', '')))
sort_rows(rows) == sort_from(rows, <<>>)

get_city_averages(log) ==
    IF log = <<>> THEN NoWeatherData
    ELSE [kind |-> "averages", rows |-> sort_rows(average_rows(group_by_city(log, <<>>)))]

AvgTemps == {1000, 1004, 2000, 3000}
AvgEntries == {Obs(c, temp, 0) : c \in Cities, temp \in AvgTemps}

InitAverages ==
    /\ InitRun
    /\ InitSchedOff
    /\ alog \in SeqsUpTo(AvgEntries, MaxLen)
    /\ acity = ""
    /\ anow = 0
    /\ out = NoOutput

CityAverages ==
    /\ out = NoOutput
    /\ out' = get_city_averages(alog)
    /\ UNCHANGED <<clock, runVars, dupRequested, schedVars, alog, anow, acity>>

SpecAverages == InitAverages /\ [][CityAverages]_vars

\* get_extremes -----------------------------------------------------------
\* max(pairs, key=temperature): the first pair of the largest temperature
RECURSIVE max_scan(_, _)
max_scan(pairs, best) ==
    IF pairs = <<>> THEN best
    ELSE max_scan(Tail(pairs), IF Head(pairs)[2] > best[2] THEN Head(pairs) ELSE best)

RECURSIVE max_scan_last(_, _)
max_scan_last(pairs, best) ==
    IF pairs = <<>> THEN best
    ELSE max_scan_last(Tail(pairs), IF Head(pairs)[2] >= best[2] THEN Head(pairs) ELSE best)

max_by_temp_last(pairs) == max_scan_last(Tail(pairs), Head(pairs))

max_by_temp(pairs) == max_scan(Tail(pairs), Head(pairs))

\* min(pairs, key=temperature): the first pair of the smallest temperature
RECURSIVE min_scan(_, _)
min_scan(pairs, best) ==
    IF pairs = <<>> THEN best
    ELSE min_scan(Tail(pairs), IF Head(pairs)[2] < best[2] THEN Head(pairs) ELSE best)

min_by_temp(pairs) == min_scan(Tail(pairs), Head(pairs))

\* lines 226 and 233-237
city_temp_pairs(log) == [i \in DOMAIN log |-> <<log[i].city, log[i].temperature>>]

recent_entries(log, now) ==
    SelectSeq(log, LAMBDA e : e.local_timestamp > now - Day)

NoDataPair == <<"No data", 0>>

get_extremes(log, now) ==
    IF log = <<>> THEN NoWeatherData
    ELSE LET all_temps == city_temp_pairs(log)
             recent_data == city_temp_pairs(recent_entries(log, now))
         IN [kind |-> "extremes",
             hottest_overall |-> max_by_temp(all_temps),
             coldest_overall |-> min_by_temp(all_temps),
             hottest_24h |-> IF recent_data # <<>> THEN max_by_temp(recent_data) ELSE NoDataPair,
             coldest_24h |-> IF recent_data # <<>> THEN min_by_temp(recent_data) ELSE NoDataPair]

ExtCities == {"Paris", "Rome"}
ExtTemps == {1000, 3000}
ExtTimes == {2, 3, 25}
ExtNows == {26, 27}
ExtEntries == {Obs(c, temp, t) : c \in ExtCities, temp \in ExtTemps, t \in ExtTimes}

InitExtremes ==
    /\ InitRun
    /\ InitSchedOff
    /\ alog \in SeqsUpTo(ExtEntries, MaxLen)
    /\ acity = ""
    /\ anow \in ExtNows
    /\ out = NoOutput

Extremes ==
    /\ out = NoOutput
    /\ out' = get_extremes(alog, anow)
    /\ UNCHANGED <<clock, runVars, dupRequested, schedVars, alog, anow, acity>>

SpecExtremes == InitExtremes /\ [][Extremes]_vars

\* ------------------------------------------------- properties of a run
IsPrefix(s, t) == Len(s) <= Len(t) /\ SubSeq(t, 1, Len(s)) = s

\* some stored observation of the city's series is younger than the window
IsRecent(city, log, now) ==
    \E i \in DOMAIN log :
        lower(log[i].city) = lower(city) /\ now - log[i].local_timestamp < Window

\* the observations among the gathered results, in task order
Successes(rs) ==
    LET ok == SelectSeq(rs, LAMBDA r : r.kind = "dict")
    IN [i \in 1..Len(ok) |-> ok[i].value]

SkippedCount(cities, log, force_update, now) ==
    Cardinality({i \in DOMAIN cities : ~force_update /\ IsRecent(cities[i], log, now)})

\* C1: a run issues a fetch call for exactly the requested cities that are
\* forced or have no recent entry in the log loaded at its start: N - M calls
\* when M are skipped, all N when force_update is true, and none later on.
C1_FetchCalls ==
    [][ /\ (phase # "fetching" /\ phase' = "fetching") =>
            LET log == load_data(file)
            IN /\ tasks' = SelectSeq(req', LAMBDA c : force' \/ ~IsRecent(c, log, clock))
               /\ calls' = Len(req') - SkippedCount(req', log, force', clock)
               /\ calls' = Len(tasks')
               /\ force' => tasks' = req'
        /\ (phase = "fetching" /\ phase' = "fetching") =>
            (calls' = calls /\ tasks' = tasks) ]_vars

C1_Witness ==
    /\ phase = "fetching"
    /\ ~force
    /\ Len(req) = 2
    /\ calls = 1
    /\ tasks = <<req[2]>>

\* C3: when a run completes, the stored log is the log loaded at its start
\* followed by one observation per fetch that succeeded, whichever fetches
\* failed; a fetch that returns leaves its siblings' results untouched.
C3_PartialFailure ==
    [][ /\ (phase = "fetching" /\ tasks # <<>> /\ phase' = "done") =>
            file' = ValidFile(loaded \o Successes(results))
        /\ (phase = "fetching" /\ phase' = "fetching") =>
            \A i \in DOMAIN results :
                results'[i] # results[i] =>
                    /\ results[i] = Pending
                    /\ \A j \in DOMAIN results : j # i => results'[j] = results[j] ]_vars

C3_Witness ==
    /\ phase = "fetching"
    /\ loaded # <<>>
    /\ Len(results) = 2
    /\ results[1] = None
    /\ results[2].kind = "dict"

\* C4: the stored log before any step is a prefix of the stored log after it.
C4_AppendOnly == [][IsPrefix(load_data(file), load_data(file'))]_vars

\* C5: when the write of a run fails, the next load returns the log as it was
\* before the run.
C5_AtomicWrite == [][phase' = "failed" => load_data(file') = loaded]_vars

\* C7: a run calls save_data at most once, only after every fetch it issued has
\* returned, and what it writes is the loaded log plus all its successes.
C7_SingleBatchWrite ==
    [][ (saves' > saves \/ file' # file) =>
            /\ phase = "fetching"
            /\ \A i \in DOMAIN results : results[i] # Pending
            /\ saves = 0
            /\ saves' = 1
            /\ file' \in {file, CorruptFile, ValidFile(loaded \o Successes(results))} ]_vars

\* two fetches of one run have returned at different times and nothing has been
\* written yet
C7_Witness ==
    /\ phase = "fetching"
    /\ Len(results) = 2
    /\ results[1].kind = "dict"
    /\ results[2].kind = "dict"
    /\ results[1].value.local_timestamp > results[2].value.local_timestamp
    /\ saves = 0
    /\ file = AbsentFile

NoCloseDuplicates(log) ==
    \A i, j \in DOMAIN log :
        (i < j /\ lower(log[i].city) = lower(log[j].city)) =>
            LET d == log[i].local_timestamp - log[j].local_timestamp
            IN d >= Window \/ -d >= Window

\* C10 as stated: after unforced runs the log never holds two observations of
\* one case-insensitive city less than two hours apart.
C10_NoCloseDuplicates == NoCloseDuplicates(file.log)

\* C10 amended: the same, provided no run was asked for two cities that are
\* equal case-insensitively.
C10_NoCloseDuplicatesDistinctRequests == ~dupRequested => NoCloseDuplicates(file.log)

C10_Witness ==
    /\ ~dupRequested
    /\ Len(file.log) = 2
    /\ file.log[1].city = "Paris"
    /\ file.log[2].city = "paris"

\* ------------------------------------------- properties of the queries
Matching(city, log) == {i \in DOMAIN log : lower(log[i].city) = lower(city)}

LatestTime(I, log) ==
    CHOOSE t \in {log[i].local_timestamp : i \in I} :
        \A i \in I : log[i].local_timestamp <= t

\* C2: needs_fetch (not is_duplicate_entry) is false exactly when the latest
\* observation of the city, matched case-insensitively, is strictly younger
\* than the window; it is true for an empty log, for no match, and at or
\* beyond the window.
C2_NeedsFetch ==
    out.kind = "is_duplicate_entry" =>
        LET m == Matching(acity, alog)
        IN (~out.value) = (m = {} \/ anow - LatestTime(m, alog) >= Window)

C2_Witness ==
    /\ out.kind = "is_duplicate_entry"
    /\ ~out.value
    /\ \E i \in DOMAIN alog :
          /\ alog[i].city # acity
          /\ lower(alog[i].city) = lower(acity)
          /\ anow - alog[i].local_timestamp = Window

RECURSIVE SumOver(_, _)
SumOver(I, log) ==
    IF I = {} THEN 0
    ELSE LET i == CHOOSE x \in I : TRUE
         IN log[i].temperature + SumOver(I \ {i}, log)

Group(city, log) == {i \in DOMAIN log : log[i].city = city}

FirstIndex(city, log) == CHOOSE i \in Group(city, log) : \A j \in Group(city, log) : i <= j

\* one row per exact city string, with the count of its observations and its
\* mean printed to the nearest tenth
GroupsReported(rows, log) ==
    /\ {rows[i].city : i \in DOMAIN rows} = {log[i].city : i \in DOMAIN log}
    /\ \A i, j \in DOMAIN rows : rows[i].city = rows[j].city => i = j
    /\ \A i \in DOMAIN rows :
          LET g == Group(rows[i].city, log)
              err == 10 * rows[i].avg * Cardinality(g) - SumOver(g, log)
          IN /\ rows[i].count = Cardinality(g)
             /\ 2 * err <= 10 * Cardinality(g)
             /\ -2 * err <= 10 * Cardinality(g)

PairOf(i, log) == <<log[i].city, log[i].temperature>>

Hottest(I, log) == {i \in I : \A j \in I : log[j].temperature <= log[i].temperature}
Coldest(I, log) == {i \in I : \A j \in I : log[j].temperature >= log[i].temperature}
Earliest(I, log) == {i \in I : \A j \in I : log[i].local_timestamp <= log[j].local_timestamp}
FirstOf(I) == {i \in I : \A j \in I : i <= j}
Last24h(log, now) == {i \in DOMAIN log : now - log[i].local_timestamp < Day}

\* C9 as stated: among the observations of extreme temperature the one with
\* the earliest observed_at_local is reported.
C9_ExtremesEarliest ==
    out.kind = "extremes" =>
        LET all == DOMAIN alog
            rec == Last24h(alog, anow)
        IN /\ out.hottest_overall \in {PairOf(i, alog) : i \in Earliest(Hottest(all, alog), alog)}
           /\ out.coldest_overall \in {PairOf(i, alog) : i \in Earliest(Coldest(all, alog), alog)}
           /\ IF rec = {}
              THEN out.hottest_24h = NoDataPair /\ out.coldest_24h = NoDataPair
              ELSE /\ out.hottest_24h \in
                         {PairOf(i, alog) : i \in Earliest(Hottest(rec, alog), alog)}
                   /\ out.coldest_24h \in
                         {PairOf(i, alog) : i \in Earliest(Coldest(rec, alog), alog)}

\* C9 amended: among the observations of extreme temperature the one that
\* comes first in the log is reported; the 24h subset holds the observations
\* strictly younger than 24 hours, and when it is empty the result is "No data".
C9_ExtremesFirstInLog ==
    out.kind = "extremes" =>
        LET all == DOMAIN alog
            rec == Last24h(alog, anow)
        IN /\ out.hottest_overall \in {PairOf(i, alog) : i \in FirstOf(Hottest(all, alog))}
           /\ out.coldest_overall \in {PairOf(i, alog) : i \in FirstOf(Coldest(all, alog))}
           /\ IF rec = {}
              THEN out.hottest_24h = NoDataPair /\ out.coldest_24h = NoDataPair
              ELSE /\ out.hottest_24h \in {PairOf(i, alog) : i \in FirstOf(Hottest(rec, alog))}
                   /\ out.coldest_24h \in {PairOf(i, alog) : i \in FirstOf(Coldest(rec, alog))}

C9_Witness ==
    /\ out.kind = "extremes"
    /\ Len(alog) = 3
    /\ alog[1].temperature = 3000
    /\ alog[2].temperature = 3000
    /\ alog[1].city # alog[2].city
    /\ alog[1].local_timestamp > alog[2].local_timestamp
    /\ out.hottest_overall = PairOf(1, alog)
    /\ anow - alog[3].local_timestamp = Day
    /\ out.coldest_overall = PairOf(3, alog)
    /\ out.coldest_24h # out.coldest_overall

====
